---- MODULE Spec2Model ----
(***************************************************************************)
(* Model of tools/flash_config.py (the NVS partition builder, from_config  *)
(* and main) and of tools/configure_device.py (DeviceConfigurator).        *)
(*                                                                         *)
(* NVSPartition is modelled as one object (size, num_pages, entries,       *)
(* string_data); generate_binary runs as a sequence of steps over its      *)
(* locals (binary, page_offset, entry_offset, the index of the for loop,   *)
(* string_bytes, chunk_offset, chunk_index).  The output buffer is a       *)
(* sequence of bytes, and every write is the bytearray operation the code  *)
(* performs: slice assignment (which can lengthen the buffer), struct      *)
(* pack_into (which cannot), index assignment.                             *)
(***************************************************************************)
EXTENDS Integers, Sequences, FiniteSets, TLC

VARIABLES
    obj,            \* "none": no NVSPartition object; "live": constructed
    size,           \* self.size
    num_pages,      \* self.num_pages
    entries,        \* self.entries: sequence of NVSEntry
    string_data,    \* self.string_data: key -> string
    adds,           \* number of add_* calls made on the object so far
    err,            \* the exception the last call raised, or "none"
    pc,             \* position in generate_binary
    binary,         \* generate_binary's buffer (the returned value at "returned")
    page_offset,    \* local page_offset
    entry_offset,   \* local entry_offset
    idx,            \* 1-based position of the for loop in self.entries
    string_bytes,   \* local string_bytes of the string entry being written
    chunk_offset,   \* local chunk_offset
    chunk_index,    \* local chunk_index
    written,        \* history: every buffer write of this generate_binary call
    loaded,         \* history: the from_config calls made on the object
    kept,           \* an image a caller holds from an earlier generate_binary
    args,           \* main: the parsed command line
    step,           \* main: position in the run
    config_read,    \* main: what load_config returned (local config)
    size_read,      \* main: the parsed size (local size)
    exit_code,      \* the exit status of the process, once step is "exited"
    disk,           \* the output file
    events,         \* history: what this run did outside the process
    device_config,  \* configure_device: the config argument
    todo,           \* configure_device: the commands it has still to send
    success,        \* configure_device: local success
    cd_pc,          \* configure_device: "idle", "running", "returned"
    sent,           \* history: the send_command calls that returned
    sc_pc,          \* position of the calling thread in send_command
    response_received,  \* self.response_received
    last_response,  \* self.last_response: the command answered, 0 for None
    inflight,       \* status messages published and not yet delivered
    handling,       \* the message _on_message is in the middle of, or 0
    flag_by         \* history: the message that set response_received, or 0

vars == <<obj, size, num_pages, entries, string_data, adds, err, pc, binary,
          page_offset, entry_offset, idx, string_bytes, chunk_offset,
          chunk_index, written, loaded, kept,
          args, step, config_read, size_read, exit_code, disk, events,
          device_config, todo, success, cd_pc, sent, sc_pc,
          response_received, last_response, inflight, handling, flag_by>>

genLocals == <<binary, page_offset, entry_offset, idx, string_bytes,
               chunk_offset, chunk_index, written>>

partition == <<obj, size, num_pages, entries, string_data, adds>>

\* what the callers of the builder hold
caller == <<loaded, kept>>

\* the builder and its callers
builder == <<partition, err, pc, genLocals, caller>>

\* the command-line run
cli == <<args, step, config_read, size_read, exit_code, disk, events>>

\* configure_device.py: the call of configure_device, the DeviceConfigurator
\* object and the network thread
configurator == <<device_config, todo, success, cd_pc, sent>>
client == <<response_received, last_response, inflight, handling, flag_by>>
device == <<configurator, sc_pc, client>>

----------------------------------------------------------------------------
(* Bounds of the model *)

MaxAdds == 2

----------------------------------------------------------------------------
(* Program constants *)

PAGE_SIZE == 4096
ENTRY_SIZE == 32
MaxKeyChars == 15
MaxStringChars == 4000
InlineCapacity == 8
ChunkSize == 32

U8 == 1
U16 == 2
U32 == 4
STR == 33
BLOB_DATA == 65

\* "device_cfg"
NAMESPACE == <<100, 101, 118, 105, 99, 101, 95, 99, 102, 103>>

----------------------------------------------------------------------------
(* Bytes and integers *)

Min(a, b) == IF a < b THEN a ELSE b
Max(a, b) == IF a > b THEN a ELSE b

RECURSIVE Pow2(_)
Pow2(n) == IF n = 0 THEN 1 ELSE 2 * Pow2(n - 1)

\* bitwise exclusive or of two naturals
RECURSIVE Xor(_, _)
Xor(a, b) ==
    IF a = 0 THEN b
    ELSE IF b = 0 THEN a
    ELSE 2 * Xor(a \div 2, b \div 2) + ((a + b) % 2)

\* bytearray(n): n zero bytes
Zeros(n) == [i \in 1..n |-> 0]

Take(s, n) == SubSeq(s, 1, Min(n, Len(s)))

\* s[lo:] of a Python sequence (0-based lo)
From(s, lo) == SubSeq(s, lo + 1, Len(s))

\* little-endian encoding of v in w bytes (struct '<B', '<H', '<I')
LE(v, w) == [i \in 1..w |-> (v \div Pow2(8 * (i - 1))) % 256]

\* b[lo:hi] = x on a bytearray: the slice is clipped to the buffer and
\* replaced by x whatever its length, so the buffer can grow or shrink
SliceAssign(b, lo, hi, x) ==
    LET n == Len(b)
        l == Min(Max(lo, 0), n)
        h == Max(l, Min(hi, n))
    IN  SubSeq(b, 1, l) \o x \o SubSeq(b, h + 1, n)

\* struct.pack_into(fmt, b, off, v) and b[i] = v: in place, length unchanged
PackInto(b, off, bytes) ==
    [i \in 1..Len(b) |->
        IF i > off /\ i <= off + Len(bytes) THEN bytes[i - off] ELSE b[i]]

\* b[lo:hi] read (0-based, hi exclusive), clipped like a Python slice
Slice(b, lo, hi) == SubSeq(b, Min(lo, Len(b)) + 1, Min(hi, Len(b)))

----------------------------------------------------------------------------
(* str.encode('utf-8') on a sequence of code points *)

Utf8Char(c) ==
    IF c < 128 THEN <<c>>
    ELSE IF c < 2048 THEN <<192 + (c \div 64), 128 + (c % 64)>>
    ELSE IF c < 65536
         THEN <<224 + (c \div 4096), 128 + ((c \div 64) % 64), 128 + (c % 64)>>
    ELSE <<240 + (c \div 262144), 128 + ((c \div 4096) % 64),
           128 + ((c \div 64) % 64), 128 + (c % 64)>>

RECURSIVE Utf8From(_, _)
Utf8From(s, i) ==
    IF i > Len(s) THEN <<>> ELSE Utf8Char(s[i]) \o Utf8From(s, i + 1)

Utf8(s) ==
    IF \A i \in 1..Len(s) : s[i] < 128 THEN s ELSE Utf8From(s, 1)

----------------------------------------------------------------------------
(* zlib.crc32, on 32-bit words held as four bytes, least significant first
   (the order struct.pack_into('<I', ...) stores them in) *)

\* 0xEDB88320
CrcPoly == <<32, 131, 184, 237>>

Xor4(x, y) == [i \in 1..4 |-> Xor(x[i], y[i])]

\* x >> 1
Shr1(x) == [i \in 1..4 |->
              (x[i] \div 2) + (IF i < 4 THEN (x[i + 1] % 2) * 128 ELSE 0)]

RECURSIVE CrcShift(_, _)
CrcShift(c, k) ==
    IF k = 0 THEN c
    ELSE CrcShift(IF c[1] % 2 = 1 THEN Xor4(Shr1(c), CrcPoly) ELSE Shr1(c), k - 1)

CrcTable == [n \in 0..255 |-> CrcShift(<<n, 0, 0, 0>>, 8)]

\* one byte through the table: table[(c ^ byte) & 0xFF] ^ (c >> 8)
CrcStep(c, byte) ==
    LET t == CrcTable[Xor(c[1], byte)]
    IN  <<Xor(t[1], c[2]), Xor(t[2], c[3]), Xor(t[3], c[4]), t[4]>>

\* the bytes data[lo..hi] through the register, in order (split in halves, the
\* first half evaluated before the second, to keep the evaluation shallow)
RECURSIVE CrcUpdate(_, _, _, _)
CrcUpdate(c, data, lo, hi) ==
    IF lo > hi THEN c
    ELSE IF lo = hi THEN CrcStep(c, data[lo])
    ELSE LET mid == (lo + hi) \div 2
             left == CrcUpdate(c, data, lo, mid)
         IN  IF Len(left) = 4 THEN CrcUpdate(left, data, mid + 1, hi) ELSE left

\* zlib.crc32(data) & 0xFFFFFFFF, as the four bytes of '<I'
_crc32(data) ==
    LET c == CrcUpdate(<<255, 255, 255, 255>>, data, 1, Len(data))
    IN  [i \in 1..4 |-> 255 - c[i]]

----------------------------------------------------------------------------
(* Inputs *)

Ascii(n) == [i \in 1..n |-> 97 + (i % 26)]

KeyShort == <<110>>                                \* "n"
KeyWide == [i \in 1..15 |-> IF i = 15 THEN 233 ELSE 107]   \* 15 characters, 16 bytes
KeyLong == [i \in 1..16 |-> 107]                   \* 16 characters
Keys == {KeyShort, KeyWide, KeyLong}

StrInline == Ascii(3)                              \* 4 encoded bytes
StrAccent == <<233>> \o Ascii(6)                   \* 7 characters, 9 encoded bytes
StrTwoChunks == Ascii(40)                          \* 41 encoded bytes
StrPage == Ascii(MaxStringChars)                   \* the longest accepted value
StrTooLong == Ascii(MaxStringChars + 1)
Strings == {StrInline, StrAccent, StrTwoChunks, StrPage, StrTooLong}

NumValues == {7, 300}

Sizes == {0 - PAGE_SIZE, 0, 100, PAGE_SIZE, 2 * PAGE_SIZE}

\* positions outside generate_binary
Outside == {"idle", "returned", "raised"}

----------------------------------------------------------------------------
(* Configurations: the dictionary json.load returns.  A configuration is a
   function whose domain is the set of keys present in the file. *)

\* {}
NoKeys == [k \in {} |-> 0]

\* {key: value}
Only(key, value) == [k \in {key} |-> value]

\* {**f, **g} for dictionaries with distinct keys
Merge(f, g) ==
    [k \in DOMAIN f \cup DOMAIN g |-> IF k \in DOMAIN f THEN f[k] ELSE g[k]]

\* the key absent, or present with one of the values
Optional(key, values) == {NoKeys} \cup {Only(key, v) : v \in values}

\* str(n) for the indices enumerate yields here (one decimal digit)
Digit(n) == <<48 + n>>

\* {"ssid": "net<i>", "password": "pw<i>"}
Network(i) ==
    [ssid |-> <<110, 101, 116>> \o Digit(i), password |-> <<112, 119>> \o Digit(i)]

Networks(n) == [i \in 1..n |-> Network(i - 1)]

NetworkCounts == {0, 2, 6}

StrName == <<102, 97, 110>>                   \* "fan"
StrServer == <<49, 48, 46, 49, 48, 46, 49, 46, 50, 48>>   \* "10.10.1.20"
StrCmdTopic == <<102, 97, 110, 47, 99, 109, 100>>         \* "fan/cmd"
StrStatTopic == <<102, 97, 110, 47, 115, 116, 97, 116>>    \* "fan/stat"
StrInflux == <<104, 116, 116, 112, 58, 47, 47, 100, 98>>      \* "http://db"
StrFirmware == <<102, 119>>            \* "fw"
PortValue == 8883
PortTooWide == 70000                               \* more than '<H' holds

Topics == [command |-> StrCmdTopic, status |-> StrStatTopic]
Endpoints == [influxdb |-> StrInflux, firmware |-> StrFirmware]

\* every combination of present and absent keys
PlainConfigs ==
    {Merge(a, Merge(b, Merge(c, Merge(d, Merge(e, f))))) :
        a \in Optional("device_name", {StrName}),
        b \in Optional("wifi_networks", {Networks(n) : n \in NetworkCounts}),
        c \in Optional("mqtt_server", {StrServer}),
        d \in Optional("mqtt_port", {PortValue, PortTooWide}),
        e \in Optional("mqtt_topics", {Topics}),
        f \in Optional("api_endpoints", {Endpoints})}

\* values at the limit of add_string, first and last of the strings
LongConfigs ==
    {Only("device_name", v) : v \in {StrPage, StrTooLong}}
    \cup {Merge(Only("mqtt_server", StrServer),
                Only("api_endpoints", [influxdb |-> StrInflux, firmware |-> StrTooLong]))}

Configs == PlainConfigs \cup LongConfigs

----------------------------------------------------------------------------
(* NVSEntry *)

NVSEntry(key, data_type, value) ==
    [namespace |-> NAMESPACE, key |-> key, data_type |-> data_type, value |-> value]

\* NVSEntry.__init__ raises
KeyTooLong(key) == Len(key) > MaxKeyChars

\* the first four bytes of a record
RecordHead(ns_index, type) == <<ns_index, type, 1, 255>>

\* entry[8:8+len(key_bytes)] = key_bytes; entry[8+len(key_bytes)] = 0
PutKey(rec, key) ==
    LET key_bytes == Take(Utf8(key), 15)
        r == SliceAssign(rec, 8, 8 + Len(key_bytes), key_bytes)
    IN  PackInto(r, 8 + Len(key_bytes), <<0>>)

\* crc = _crc32(entry[4:]); struct.pack_into('<I', entry, 4, crc)
PutCrc(rec) == PackInto(rec, 4, _crc32(From(rec, 4)))

Width(data_type) ==
    IF data_type = U8 THEN 1 ELSE IF data_type = U16 THEN 2 ELSE 4

\* struct.pack_into raises struct.error when the value does not fit the format
EncodeRaises(e) ==
    IF e.data_type = STR
    THEN Len(Utf8(e.value)) + 1 > 65535
    ELSE \/ e.value < 0
         \/ Width(e.data_type) < 4 /\ e.value >= Pow2(8 * Width(e.data_type))

\* NVSEntry.encode
encode(e) ==
    LET head == PackInto(Zeros(ENTRY_SIZE), 0, RecordHead(255, e.data_type))
        keyed == PutKey(head, e.key)
        data == IF e.data_type = STR
                THEN PackInto(keyed, 24, LE(Len(Utf8(e.value)) + 1, 2))
                ELSE PackInto(keyed, 24, LE(e.value, Width(e.data_type)))
    IN  PutCrc(data)

----------------------------------------------------------------------------
(* NVSPartition: construction and the add operations *)

FreshLocals ==
    /\ binary' = <<>>
    /\ page_offset' = 0
    /\ entry_offset' = 0
    /\ idx' = 0
    /\ string_bytes' = <<>>
    /\ chunk_offset' = 0
    /\ chunk_index' = 0
    /\ written' = <<>>

\* no from_config call made on the object yet
NoCall == [calls |-> 0, config |-> NoKeys, base |-> 0, raised |-> "none"]

\* the caller holds no image
NoImage == [held |-> FALSE, config |-> NoKeys, size |-> 0, image |-> <<>>]

\* the configuration file named on the command line: what open and
\* json.load make of it, and the value json.load returns
File(kind, value) == [kind |-> kind, value |-> value]
NoFile == File("missing", NoKeys)

\* before parse_args
NoArgs == [config |-> NoFile, size |-> <<>>, flash |-> FALSE]

\* the output file does not exist
NoOutput == [exists |-> FALSE, bytes |-> <<>>]

Init ==
    /\ obj = "none"
    /\ size = 0
    /\ num_pages = 0
    /\ entries = <<>>
    /\ string_data = <<>>
    /\ adds = 0
    /\ err = "none"
    /\ pc = "idle"
    /\ binary = <<>>
    /\ page_offset = 0
    /\ entry_offset = 0
    /\ idx = 0
    /\ string_bytes = <<>>
    /\ chunk_offset = 0
    /\ chunk_index = 0
    /\ written = <<>>
    /\ loaded = NoCall
    /\ kept = NoImage
    /\ args = NoArgs
    /\ step = "shell"
    /\ config_read = NoFile
    /\ size_read = 0
    /\ exit_code = 0
    /\ disk = NoOutput
    /\ events = <<>>
    /\ device_config = NoKeys
    /\ todo = <<>>
    /\ success = TRUE
    /\ cd_pc = "idle"
    /\ sent = <<>>
    /\ sc_pc = "none"
    /\ response_received = FALSE
    /\ last_response = 0
    /\ inflight = {}
    /\ handling = 0
    /\ flag_by = 0

\* NVSPartition.__init__: the only test is size % PAGE_SIZE
SizeAccepted(s) == s % PAGE_SIZE = 0

New(s) ==
    /\ pc \in Outside
    /\ IF SizeAccepted(s)
       THEN /\ obj' = "live"
            /\ size' = s
            /\ num_pages' = s \div PAGE_SIZE
            /\ err' = "none"
       ELSE /\ obj' = "none"
            /\ size' = 0
            /\ num_pages' = 0
            /\ err' = "MisalignedSize"
    /\ entries' = <<>>
    /\ string_data' = <<>>
    /\ adds' = 0
    /\ pc' = "idle"
    /\ FreshLocals

\* self.entries.append(NVSEntry(self.NAMESPACE, key, data_type, value))
AppendEntry(key, data_type, value) ==
    IF KeyTooLong(key)
    THEN /\ err' = "KeyTooLong"
         /\ entries' = entries
    ELSE /\ err' = "none"
         /\ entries' = Append(entries, NVSEntry(key, data_type, value))

CallAdd ==
    /\ obj = "live"
    /\ pc \in Outside
    /\ adds < MaxAdds
    /\ adds' = adds + 1
    /\ pc' = "idle"
    /\ FreshLocals
    /\ UNCHANGED <<obj, size, num_pages>>

add_u8(key, value) ==
    /\ CallAdd
    /\ AppendEntry(key, U8, value)
    /\ UNCHANGED string_data

add_u16(key, value) ==
    /\ CallAdd
    /\ AppendEntry(key, U16, value)
    /\ UNCHANGED string_data

add_u32(key, value) ==
    /\ CallAdd
    /\ AppendEntry(key, U32, value)
    /\ UNCHANGED string_data

\* self.string_data[key] = value
StoreString(sd, key, value) ==
    [k \in DOMAIN sd \cup {key} |-> IF k = key THEN value ELSE sd[k]]

\* as ValueTooLong, the limit itself refused
ValueAtLimitTooLong(value) == Len(value) >= MaxStringChars

\* if len(value) > 4000: raise ValueError
ValueTooLong(value) == Len(value) > MaxStringChars

add_string(key, value) ==
    /\ CallAdd
    /\ IF ValueTooLong(value)
       THEN /\ err' = "ValueTooLong"
            /\ UNCHANGED <<entries, string_data>>
       ELSE /\ string_data' = StoreString(string_data, key, value)
            /\ AppendEntry(key, STR, value)

----------------------------------------------------------------------------
(* from_config *)

\* the keys from_config writes
Key_deviceName == <<100, 101, 118, 105, 99, 101, 78, 97, 109, 101>>
Key_wifiCount == <<119, 105, 102, 105, 67, 111, 117, 110, 116>>
Key_mqttServer == <<109, 113, 116, 116, 83, 101, 114, 118, 101, 114>>
Key_mqttPort == <<109, 113, 116, 116, 80, 111, 114, 116>>
Key_mqttCmdTopic == <<109, 113, 116, 116, 67, 109, 100, 84, 111, 112, 105, 99>>
Key_mqttStatTopic == <<109, 113, 116, 116, 83, 116, 97, 116, 84, 111, 112, 105, 99>>
Key_apiInflux == <<97, 112, 105, 73, 110, 102, 108, 117, 120>>
Key_apiFwUpdate == <<97, 112, 105, 70, 119, 85, 112, 100, 97, 116, 101>>
Key_initialized == <<105, 110, 105, 116, 105, 97, 108, 105, 122, 101, 100>>

\* f"wifi{idx}ssid" and f"wifi{idx}pass"
Key_wifi_ssid(n) == <<119, 105, 102, 105>> \o Digit(n) \o <<115, 115, 105, 100>>
Key_wifi_pass(n) == <<119, 105, 102, 105>> \o Digit(n) \o <<112, 97, 115, 115>>

DefaultPort == 1883
MaxNetworks == 5

\* one add_* call from_config makes
Call(data_type, key, value) == [data_type |-> data_type, key |-> key, value |-> value]

\* as WifiCalls, the password before the ssid
WifiCallsPassFirst(wifi, n) ==
    <<Call(STR, Key_wifi_pass(n), wifi.password),
      Call(STR, Key_wifi_ssid(n), wifi.ssid)>>

\* the two add_string calls of the loop body, for wifi at position n
WifiCalls(wifi, n) ==
    <<Call(STR, Key_wifi_ssid(n), wifi.ssid),
      Call(STR, Key_wifi_pass(n), wifi.password)>>

\* for idx, wifi in enumerate(nets): ...
RECURSIVE WifiLoop(_, _)
WifiLoop(nets, i) ==
    IF i > Len(nets) THEN <<>>
    ELSE WifiCalls(nets[i], i - 1) \o WifiLoop(nets, i + 1)

\* as WifiSection, with neither the count nor the list cut at five
WifiSectionUncut(config) ==
    IF "wifi_networks" \in DOMAIN config
    THEN <<Call(U8, Key_wifiCount, Len(config["wifi_networks"]))>>
         \o WifiLoop(config["wifi_networks"], 1)
    ELSE <<>>

\* lines 157-164
WifiSection(config) ==
    IF "wifi_networks" \in DOMAIN config
    THEN LET wifi_count == Min(Len(config["wifi_networks"]), MaxNetworks)
         IN  <<Call(U8, Key_wifiCount, wifi_count)>>
             \o WifiLoop(Take(config["wifi_networks"], MaxNetworks), 1)
    ELSE <<>>

\* as PortSection, the default written only for a configured server
PortSectionForServer(config) ==
    IF "mqtt_port" \in DOMAIN config
    THEN <<Call(U16, Key_mqttPort, config["mqtt_port"])>>
    ELSE IF "mqtt_server" \in DOMAIN config
    THEN <<Call(U16, Key_mqttPort, DefaultPort)>>
    ELSE <<>>

\* lines 169-173
PortSection(config) ==
    IF "mqtt_port" \in DOMAIN config
    THEN <<Call(U16, Key_mqttPort, config["mqtt_port"])>>
    ELSE <<Call(U16, Key_mqttPort, DefaultPort)>>

\* the add_* calls from_config makes for a configuration, in program order
Calls(config) ==
    (IF "device_name" \in DOMAIN config
     THEN <<Call(STR, Key_deviceName, config["device_name"])>> ELSE <<>>)
    \o WifiSection(config)
    \o (IF "mqtt_server" \in DOMAIN config
        THEN <<Call(STR, Key_mqttServer, config["mqtt_server"])>> ELSE <<>>)
    \o PortSection(config)
    \o (IF "mqtt_topics" \in DOMAIN config
        THEN <<Call(STR, Key_mqttCmdTopic, config["mqtt_topics"].command),
               Call(STR, Key_mqttStatTopic, config["mqtt_topics"].status)>>
        ELSE <<>>)
    \o (IF "api_endpoints" \in DOMAIN config
        THEN <<Call(STR, Key_apiInflux, config["api_endpoints"].influxdb),
               Call(STR, Key_apiFwUpdate, config["api_endpoints"].firmware)>>
        ELSE <<>>)
    \o <<Call(U8, Key_initialized, 1)>>

\* the fields of the object an add_* call reads and writes
Fields == [entries |-> entries, string_data |-> string_data, adds |-> adds, err |-> "none"]

\* add_u8, add_u16 and add_string as from_config calls them: the object after
\* the call, err the exception it raised
Added(st, call) ==
    LET counted == [st EXCEPT !.adds = @ + 1]
    IN  IF call.data_type = STR /\ ValueTooLong(call.value)
        THEN [counted EXCEPT !.err = "ValueTooLong"]
        ELSE LET stored == IF call.data_type = STR
                           THEN [counted EXCEPT !.string_data =
                                     StoreString(@, call.key, call.value)]
                           ELSE counted
             IN  IF KeyTooLong(call.key)
                 THEN [stored EXCEPT !.err = "KeyTooLong"]
                 ELSE [stored EXCEPT !.entries =
                           Append(@, NVSEntry(call.key, call.data_type, call.value))]

\* the calls in order; the first exception ends from_config
RECURSIVE Perform(_, _, _)
Perform(st, calls, i) ==
    IF i > Len(calls) \/ st.err # "none" THEN st
    ELSE Perform(Added(st, calls[i]), calls, i + 1)

from_config(config) ==
    /\ obj = "live"
    /\ pc \in Outside
    /\ LET st == Perform(Fields, Calls(config), 1)
       IN  /\ entries' = st.entries
           /\ string_data' = st.string_data
           /\ adds' = st.adds
           /\ err' = st.err
           /\ loaded' = [calls |-> loaded.calls + 1, config |-> config,
                         base |-> Len(entries), raised |-> st.err]
    /\ pc' = "idle"
    /\ FreshLocals
    /\ UNCHANGED <<obj, size, num_pages, kept>>

----------------------------------------------------------------------------
(* generate_binary *)

\* 0xFFFFFFFE, least significant byte first
ActiveState == <<254, 255, 255, 255>>

PageHeader(seq_num) ==
    LET h0 == PackInto(Zeros(32), 0, ActiveState)
        h1 == PackInto(h0, 4, LE(seq_num, 4))
        h2 == [i \in 1..32 |-> IF i > 8 THEN 255 ELSE h1[i]]
    IN  PackInto(h2, 28, _crc32(Take(h2, 8)))

\* NVSPartition._write_page_header
_write_page_header(b, offset, page_num, seq_num) ==
    SliceAssign(b, offset, offset + 32, PageHeader(seq_num))

\* NVSPartition._create_namespace_entry
_create_namespace_entry ==
    PutCrc(PutKey(PackInto(Zeros(ENTRY_SIZE), 0, RecordHead(0, 0)), NAMESPACE))

\* the descriptor of a string entry (blob_entry)
BlobEntry(key, sb) ==
    LET head == PackInto(Zeros(32), 0, RecordHead(255, STR))
        keyed == PutKey(head, key)
        sized == PackInto(keyed, 24, LE(Len(sb), 2))
        data == IF Len(sb) <= InlineCapacity
                THEN SliceAssign(sized, 24, 24 + Len(sb), sb)
                ELSE PackInto(PackInto(sized, 24, LE(Len(sb), 2)), 26, LE(0, 2))
    IN  PutCrc(data)

\* one continuation record (data_entry); data_entry[8:8+len(chunk_data)] =
\* chunk_data lengthens the record when the chunk is longer than 24 bytes
DataEntry(chunk_data) ==
    LET head == PackInto(Zeros(32), 0, RecordHead(255, BLOB_DATA))
    IN  PutCrc(SliceAssign(head, 8, 8 + Len(chunk_data), chunk_data))

\* one write of the history
Wrote(kind, at, bytes, entry) ==
    [kind |-> kind, at |-> at, n |-> Len(bytes), bytes |-> bytes, entry |-> entry]

Raise(e) ==
    /\ pc' = "raised"
    /\ err' = e
    /\ FreshLocals

\* lines 197-209: the buffer, the header of page 0, the namespace entry
GenerateBinary ==
    /\ obj = "live"
    /\ pc \in Outside
    /\ IF size < 0
       THEN Raise("NegativeCount")
       ELSE LET b0 == _write_page_header(Zeros(size), 0, 0, 0)
                ns == _create_namespace_entry
                hdr == Slice(b0, 0, 32)
            IN  /\ binary' = SliceAssign(b0, 32, 64, ns)
                /\ page_offset' = 0
                /\ entry_offset' = 64
                /\ idx' = 1
                /\ string_bytes' = <<>>
                /\ chunk_offset' = 0
                /\ chunk_index' = 0
                /\ written' = <<Wrote("header", 0, hdr, 0), Wrote("namespace", 32, ns, 0)>>
                /\ pc' = "loop"
                /\ err' = "none"
    /\ UNCHANGED partition

\* the test at the head of each iteration of the for loop
NeedsNewPage(eo, po) == eo + 32 > po + PAGE_SIZE

\* lines 212-254 and 282-286: one iteration of the for loop, up to and
\* including the entry's own record
WriteEntry ==
    /\ pc = "loop"
    /\ idx <= Len(entries)
    /\ LET e == entries[idx]
           roll == NeedsNewPage(entry_offset, page_offset)
           po == IF roll THEN page_offset + PAGE_SIZE ELSE page_offset
           b1 == IF roll
                 THEN _write_page_header(binary, po, po \div PAGE_SIZE, 0)
                 ELSE binary
           eo == IF roll THEN po + 32 ELSE entry_offset
           w1 == IF roll
                 THEN Append(written, Wrote("header", po, Slice(b1, po, po + 32), 0))
                 ELSE written
       IN  IF roll /\ po >= size
           THEN Raise("PartitionTooSmall")
           ELSE IF e.data_type = STR
           THEN LET sb == Utf8(string_data[e.key]) \o <<0>>
                    rec == BlobEntry(e.key, sb)
                IN  /\ binary' = SliceAssign(b1, eo, eo + 32, rec)
                    /\ written' = Append(w1, Wrote("descriptor", eo, rec, idx))
                    /\ page_offset' = po
                    /\ entry_offset' = eo + 32
                    /\ string_bytes' = sb
                    /\ chunk_offset' = 0
                    /\ chunk_index' = 0
                    /\ IF Len(sb) > InlineCapacity
                       THEN pc' = "chunk" /\ idx' = idx
                       ELSE pc' = "loop" /\ idx' = idx + 1
                    /\ err' = err
           ELSE IF EncodeRaises(e)
           THEN Raise("StructError")
           ELSE LET rec == encode(e)
                IN  /\ binary' = SliceAssign(b1, eo, eo + 32, rec)
                    /\ written' = Append(w1, Wrote("descriptor", eo, rec, idx))
                    /\ page_offset' = po
                    /\ entry_offset' = eo + 32
                    /\ idx' = idx + 1
                    /\ pc' = "loop"
                    /\ UNCHANGED <<string_bytes, chunk_offset, chunk_index, err>>
    /\ UNCHANGED partition

\* lines 261-281: one iteration of the while loop
WriteChunk ==
    /\ pc = "chunk"
    /\ LET chunk_size == Min(ChunkSize, Len(string_bytes) - chunk_offset)
           chunk_data == SubSeq(string_bytes, chunk_offset + 1, chunk_offset + chunk_size)
           rec == DataEntry(chunk_data)
       IN  /\ binary' = SliceAssign(binary, entry_offset, entry_offset + 32, rec)
           /\ written' = Append(written, Wrote("chunk", entry_offset, rec, idx))
           /\ entry_offset' = entry_offset + 32
           /\ chunk_offset' = chunk_offset + chunk_size
           /\ chunk_index' = chunk_index + 1
           /\ IF chunk_offset + chunk_size < Len(string_bytes)
              THEN pc' = "chunk" /\ idx' = idx
              ELSE pc' = "loop" /\ idx' = idx + 1
    /\ UNCHANGED <<partition, err, page_offset, string_bytes>>

\* for i in range(entry_offset, self.size): binary[i] = 0xFF
Fill(b, eo, n) == [i \in 1..Len(b) |-> IF i > eo /\ i <= n THEN 255 ELSE b[i]]

\* lines 288-292: the fill and the return
FillAndReturn ==
    /\ pc = "loop"
    /\ idx > Len(entries)
    /\ IF entry_offset < size /\ size > Len(binary)
       THEN Raise("IndexError")
       ELSE /\ binary' = Fill(binary, entry_offset, size)
            /\ pc' = "returned"
            /\ UNCHANGED <<err, page_offset, entry_offset, idx, string_bytes,
                           chunk_offset, chunk_index, written>>
    /\ UNCHANGED partition

\* the builder driven call by call, nothing held outside it
Next ==
    \/ \E s \in Sizes : New(s) /\ UNCHANGED <<caller, cli, device>>
    \/ \E k \in Keys, v \in NumValues : add_u8(k, v) /\ UNCHANGED <<caller, cli, device>>
    \/ \E k \in Keys, v \in NumValues : add_u16(k, v) /\ UNCHANGED <<caller, cli, device>>
    \/ \E k \in Keys, v \in NumValues : add_u32(k, v) /\ UNCHANGED <<caller, cli, device>>
    \/ \E k \in Keys, v \in Strings : add_string(k, v) /\ UNCHANGED <<caller, cli, device>>
    \/ GenerateBinary /\ UNCHANGED <<caller, cli, device>>
    \/ WriteEntry /\ UNCHANGED <<caller, cli, device>>
    \/ WriteChunk /\ UNCHANGED <<caller, cli, device>>
    \/ FillAndReturn /\ UNCHANGED <<caller, cli, device>>

Spec == Init /\ [][Next]_vars

----------------------------------------------------------------------------
(* The builder as main uses it: a new object, from_config once, then
   generate_binary *)

SizesOfMain == {PAGE_SIZE, 2 * PAGE_SIZE}

NewPartition(s) == New(s) /\ loaded' = NoCall /\ UNCHANGED kept

NextConfig ==
    \/ \E s \in SizesOfMain : NewPartition(s) /\ UNCHANGED <<cli, device>>
    \/ \E c \in Configs : loaded.calls = 0 /\ from_config(c) /\ UNCHANGED <<cli, device>>
    \/ GenerateBinary /\ UNCHANGED <<caller, cli, device>>
    \/ WriteEntry /\ UNCHANGED <<caller, cli, device>>
    \/ WriteChunk /\ UNCHANGED <<caller, cli, device>>
    \/ FillAndReturn /\ UNCHANGED <<caller, cli, device>>

SpecConfig == Init /\ [][NextConfig]_vars

----------------------------------------------------------------------------
(* The builder used again: from_config and generate_binary a second time, on
   the same object or on a new one, by a caller that holds the first image *)

MaxLoads == 2

FewConfigs == {NoKeys, Only("mqtt_server", StrServer), Only("mqtt_port", PortValue)}

\* binary = nvs.generate_binary(): the caller holds the returned image
Keep ==
    /\ pc = "returned"
    /\ loaded.calls > 0
    /\ ~kept.held
    /\ kept' = [held |-> TRUE, config |-> loaded.config, size |-> size,
                image |-> binary]
    /\ UNCHANGED <<partition, err, pc, genLocals, loaded>>

NextAgain ==
    \/ \E s \in SizesOfMain : NewPartition(s) /\ UNCHANGED <<cli, device>>
    \/ \E c \in FewConfigs :
          loaded.calls < MaxLoads /\ from_config(c) /\ UNCHANGED <<cli, device>>
    \/ GenerateBinary /\ UNCHANGED <<caller, cli, device>>
    \/ WriteEntry /\ UNCHANGED <<caller, cli, device>>
    \/ WriteChunk /\ UNCHANGED <<caller, cli, device>>
    \/ FillAndReturn /\ UNCHANGED <<caller, cli, device>>
    \/ Keep /\ UNCHANGED <<cli, device>>

SpecAgain == Init /\ [][NextAgain]_vars

----------------------------------------------------------------------------
(* main: one run of the command line *)

\* the value of a character as a digit of the base; the base itself for a
\* character that is no digit of it
DigitValue(ch, base) ==
    LET v == IF ch >= 48 /\ ch <= 57 THEN ch - 48
             ELSE IF ch >= 97 /\ ch <= 102 THEN ch - 87
             ELSE IF ch >= 65 /\ ch <= 70 THEN ch - 55
             ELSE base
    IN  IF v < base THEN v ELSE base

ValueError == [ok |-> FALSE, value |-> 0]

RECURSIVE Digits(_, _, _, _)
Digits(text, i, base, acc) ==
    IF i > Len(text) THEN [ok |-> TRUE, value |-> acc]
    ELSE IF DigitValue(text[i], base) = base THEN ValueError
    ELSE Digits(text, i + 1, base, acc * base + DigitValue(text[i], base))

\* int(text, 0) for texts without blanks and underscores: an optional minus,
\* then 0x and hexadecimal digits, or decimal digits with no leading zero
ParseInt(text) ==
    LET neg == Len(text) > 0 /\ text[1] = 45
        body == IF neg THEN Tail(text) ELSE text
        hex == Len(body) > 1 /\ body[1] = 48 /\ body[2] \in {120, 88}
        digits == IF hex THEN SubSeq(body, 3, Len(body)) ELSE body
        padded == /\ ~hex
                  /\ Len(digits) > 1
                  /\ digits[1] = 48
                  /\ \E i \in 1..Len(digits) : digits[i] # 48
        r == Digits(digits, 1, IF hex THEN 16 ELSE 10, 0)
    IN  IF Len(digits) = 0 \/ padded \/ ~r.ok THEN ValueError
        ELSE [ok |-> TRUE, value |-> IF neg THEN 0 - r.value ELSE r.value]

SizeDefault == <<48, 120, 53, 48, 48, 48>>                \* "0x5000"
SizeTexts ==
    {SizeDefault,
     <<48, 120, 49, 48, 48, 48>>,               \* "0x1000"
     <<56, 49, 57, 50>>,                       \* "8192"
     <<49, 48, 48>>,                            \* "100"
     <<45, 52, 48, 57, 54>>,                  \* "-4096"
     <<52, 107>>,                               \* "4k"
     <<48, 49, 48>>}                           \* "010"

\* a configuration from_config and generate_binary accept, one whose image
\* needs continuation records, and one add_string refuses
ConfigsOfMain ==
    {NoKeys,
     Merge(Only("device_name", StrName),
           Merge(Only("wifi_networks", Networks(2)), Only("mqtt_server", StrServer))),
     Only("device_name", StrTooLong)}

\* the file is a JSON object; it does not exist; it is no JSON; it exists
\* and cannot be opened for reading; it is JSON and no object
Files ==
    {File("object", c) : c \in ConfigsOfMain}
    \cup {File(k, NoKeys) : k \in {"missing", "malformed", "unreadable", "not_object"}}

ArgsOfMain == [config : Files, size : SizeTexts, flash : BOOLEAN]

\* what open(args.output, 'wb') and f.write do
WriteOutcomes == {"written", "failed"}

\* what subprocess.run does: the exit code of the tool, FileNotFoundError,
\* another exception
ToolOutcomes == {"exit_zero", "exit_nonzero", "not_found", "error"}

Event(kind, outcome) == [kind |-> kind, outcome |-> outcome]

\* sys.exit(code), and the end of the process by an uncaught exception
Exit(code) == step' = "exited" /\ exit_code' = code

\* args = parser.parse_args()
ParseArgs(a) ==
    /\ step = "shell"
    /\ args' = a
    /\ step' = "load"
    /\ UNCHANGED <<config_read, size_read, exit_code, disk, events, builder>>

\* config = load_config(args.config): FileNotFoundError and JSONDecodeError
\* end in sys.exit(1); any other exception of open leaves main uncaught
load_config ==
    /\ step = "load"
    /\ IF args.config.kind \in {"object", "not_object"}
       THEN /\ config_read' = args.config
            /\ step' = "size"
            /\ exit_code' = exit_code
       ELSE /\ Exit(1)
            /\ config_read' = config_read
    /\ UNCHANGED <<args, size_read, disk, events, builder>>

\* lines 472-486: int(args.size, 0), then the banner, whose config.get
\* raises AttributeError, uncaught, when the file held no object
ParseSize ==
    /\ step = "size"
    /\ LET r == ParseInt(args.size)
       IN  IF ~r.ok \/ config_read.kind # "object"
           THEN Exit(1) /\ size_read' = size_read
           ELSE /\ size_read' = r.value
                /\ step' = "build"
                /\ exit_code' = exit_code
    /\ UNCHANGED <<args, config_read, disk, events, builder>>

\* the except clause of main: print, traceback, sys.exit(1)
Caught(raised, next) ==
    IF raised
    THEN Exit(1)
    ELSE step' = next /\ exit_code' = exit_code

\* nvs = NVSPartition(size)
Build ==
    /\ step = "build"
    /\ NewPartition(size_read)
    /\ Caught(err' # "none", "config")
    /\ UNCHANGED <<args, config_read, size_read, disk, events>>

\* nvs.from_config(config)
FromConfig ==
    /\ step = "config"
    /\ from_config(config_read.value)
    /\ Caught(err' # "none", "generate")
    /\ UNCHANGED <<args, config_read, size_read, disk, events>>

\* binary = nvs.generate_binary(), one step of it
Generate(Step) ==
    /\ step = "generate"
    /\ Step
    /\ Caught(pc' = "raised", IF pc' = "returned" THEN "write" ELSE "generate")
    /\ events' = IF pc' = "returned"
                 THEN Append(events, Event("generate_binary", "returned"))
                 ELSE events
    /\ UNCHANGED <<args, config_read, size_read, disk, caller>>

\* as FlashRequested, the option not looked at
FlashRegardless == TRUE

\* if args.flash:
FlashRequested == args.flash

\* with open(args.output, 'wb') as f: f.write(binary); what is left of a
\* failed write is the old file or an empty one
WriteFile(outcome) ==
    /\ step = "write"
    /\ events' = Append(events, Event("file", outcome))
    /\ IF outcome = "written"
       THEN /\ disk' = [exists |-> TRUE, bytes |-> binary]
            /\ IF FlashRequested
               THEN step' = "flash" /\ exit_code' = exit_code
               ELSE Exit(0)
       ELSE /\ disk' \in {disk, [exists |-> TRUE, bytes |-> <<>>]}
            /\ Exit(1)
    /\ UNCHANGED <<args, config_read, size_read, builder>>

\* as flash_partition, True whenever the tool ran to its end
FlashAnyExitCode(outcome) == outcome \in {"exit_zero", "exit_nonzero"}

\* flash_partition: True for exit code 0 of the tool, False for everything
\* else
flash_partition(outcome) == outcome = "exit_zero"

\* success = flash_partition(...); if not success: sys.exit(1)
Flash(outcome) ==
    /\ step = "flash"
    /\ events' = Append(events, Event("tool", outcome))
    /\ IF ~flash_partition(outcome) THEN Exit(1) ELSE Exit(0)
    /\ UNCHANGED <<args, config_read, size_read, disk, builder>>

NextMain ==
    \/ \E a \in ArgsOfMain : ParseArgs(a) /\ UNCHANGED device
    \/ load_config /\ UNCHANGED device
    \/ ParseSize /\ UNCHANGED device
    \/ Build /\ UNCHANGED device
    \/ FromConfig /\ UNCHANGED device
    \/ Generate(GenerateBinary) /\ UNCHANGED device
    \/ Generate(WriteEntry) /\ UNCHANGED device
    \/ Generate(WriteChunk) /\ UNCHANGED device
    \/ Generate(FillAndReturn) /\ UNCHANGED device
    \/ \E o \in WriteOutcomes : WriteFile(o) /\ UNCHANGED device
    \/ \E o \in ToolOutcomes : Flash(o) /\ UNCHANGED device

SpecMain == Init /\ [][NextMain]_vars

----------------------------------------------------------------------------
(* tools/configure_device.py: DeviceConfigurator.configure_device *)

Command(name, params) == [cmd |-> name, params |-> params]

\* one set_wifi command for each network, under its index
RECURSIVE WifiCommands(_, _)
WifiCommands(nets, i) ==
    IF i > Len(nets) THEN <<>>
    ELSE <<Command("set_wifi", [index |-> i - 1, ssid |-> nets[i].ssid,
                                password |-> nets[i].password])>>
         \o WifiCommands(nets, i + 1)

\* config.get("mqtt_port", 1883)
PortOf(config) ==
    IF "mqtt_port" \in DOMAIN config THEN config["mqtt_port"] ELSE DefaultPort

\* the commands configure_device hands to send_command, in program order
Commands(config) ==
    (IF "device_name" \in DOMAIN config
     THEN <<Command("set_device_name", [name |-> config["device_name"]])>>
     ELSE <<>>)
    \o (IF "wifi_networks" \in DOMAIN config
        THEN WifiCommands(config["wifi_networks"], 1) ELSE <<>>)
    \o (IF "mqtt_server" \in DOMAIN config
        THEN <<Command("set_mqtt_server",
                       [server |-> config["mqtt_server"], port |-> PortOf(config)])>>
        ELSE <<>>)
    \o (IF "mqtt_topics" \in DOMAIN config
        THEN <<Command("set_mqtt_topics", config["mqtt_topics"])>> ELSE <<>>)
    \o (IF "api_endpoints" \in DOMAIN config
        THEN <<Command("set_api_endpoints", config["api_endpoints"])>> ELSE <<>>)
    \o <<Command("print_config", NoKeys)>>

\* every combination of present and absent keys
DeviceConfigs ==
    {Merge(a, Merge(b, Merge(c, Merge(d, Merge(e, f))))) :
        a \in Optional("device_name", {StrName}),
        b \in Optional("wifi_networks", {Networks(0), Networks(2)}),
        c \in Optional("mqtt_server", {StrServer}),
        d \in Optional("mqtt_port", {PortValue}),
        e \in Optional("mqtt_topics", {Topics}),
        f \in Optional("api_endpoints", {Endpoints})}

\* success = True, and the first "if ... in config"
configure_device(config) ==
    /\ cd_pc = "idle"
    /\ device_config' = config
    /\ todo' = Commands(config)
    /\ success' = TRUE
    /\ cd_pc' = "running"
    /\ sent' = <<>>
    /\ UNCHANGED <<sc_pc, client>>

\* as Noted, the earlier results forgotten
NotedLast(so_far, result) == result

\* if not self.send_command(...): success = False
Noted(so_far, result) == so_far /\ result

\* send_command returns to configure_device, which goes on to its next
\* command, or after print_config returns success
AfterSend(result) ==
    /\ sent' = Append(sent, [cmd |-> Head(todo), result |-> result, by |-> flag_by])
    /\ success' = Noted(success, result)
    /\ todo' = Tail(todo)
    /\ cd_pc' = IF Len(todo) = 1 THEN "returned" ELSE "running"
    /\ sc_pc' = "none"
    /\ UNCHANGED device_config

\* what a send_command call comes to: publish fails, a response is seen in
\* time, or none is
SendOutcomes == {"publish_failed", "responded", "timed_out"}

\* send_command as one step of configure_device
SendWhole(outcome) ==
    /\ cd_pc = "running"
    /\ sc_pc = "none"
    /\ response_received' = (outcome = "responded")
    /\ AfterSend(outcome = "responded")
    /\ UNCHANGED <<last_response, inflight, handling, flag_by>>

NextDevice ==
    \/ \E c \in DeviceConfigs : configure_device(c) /\ UNCHANGED <<builder, cli>>
    \/ \E o \in SendOutcomes : SendWhole(o) /\ UNCHANGED <<builder, cli>>

SpecDevice == Init /\ [][NextDevice]_vars

----------------------------------------------------------------------------
(* send_command statement by statement, with the network thread that
   loop_start runs *)

\* if status_topic: self.client.subscribe(status_topic)
Subscribe ==
    /\ cd_pc = "running"
    /\ sc_pc = "none"
    /\ sc_pc' = "reset"
    /\ UNCHANGED <<configurator, client>>

\* self.response_received = False
ResetFlag ==
    /\ sc_pc = "reset"
    /\ response_received' = FALSE
    /\ flag_by' = 0
    /\ sc_pc' = "clear"
    /\ UNCHANGED <<configurator, last_response, inflight, handling>>

\* self.last_response = None
ClearResponse ==
    /\ sc_pc = "clear"
    /\ last_response' = 0
    /\ sc_pc' = "publish"
    /\ UNCHANGED <<configurator, response_received, inflight, handling, flag_by>>

\* result = self.client.publish(...); a published command is answered by one
\* status message, numbered like the command, that arrives at any later time
\* or never
Publish(rc_success) ==
    /\ sc_pc = "publish"
    /\ IF rc_success
       THEN /\ inflight' = inflight \cup {Len(sent) + 1}
            /\ sc_pc' = "wait"
            /\ UNCHANGED configurator
       ELSE /\ AfterSend(FALSE)
            /\ UNCHANGED inflight
    /\ UNCHANGED <<response_received, last_response, handling, flag_by>>

\* the while loop ends: the flag is set, or the timeout has elapsed
LeaveWait(timed_out) ==
    /\ sc_pc = "wait"
    /\ response_received \/ timed_out
    /\ sc_pc' = "check"
    /\ UNCHANGED <<configurator, client>>

\* if not self.response_received: return False; return True
Check ==
    /\ sc_pc = "check"
    /\ AfterSend(response_received)
    /\ UNCHANGED client

\* _on_message, line 52: self.response_received = True
OnMessageFlag(m) ==
    /\ handling = 0
    /\ m \in inflight
    /\ inflight' = inflight \ {m}
    /\ handling' = m
    /\ response_received' = TRUE
    /\ flag_by' = m
    /\ UNCHANGED <<configurator, sc_pc, last_response>>

\* _on_message, line 53: self.last_response = msg.payload.decode('utf-8')
OnMessagePayload ==
    /\ handling # 0
    /\ last_response' = handling
    /\ handling' = 0
    /\ UNCHANGED <<configurator, sc_pc, response_received, inflight, flag_by>>

\* configurations of one, two and three commands
SendConfigs ==
    {NoKeys, Only("device_name", StrName),
     Merge(Only("device_name", StrName), Only("mqtt_server", StrServer))}

NextSend ==
    \/ \E c \in SendConfigs : configure_device(c) /\ UNCHANGED <<builder, cli>>
    \/ Subscribe /\ UNCHANGED <<builder, cli>>
    \/ ResetFlag /\ UNCHANGED <<builder, cli>>
    \/ ClearResponse /\ UNCHANGED <<builder, cli>>
    \/ \E rc_success \in BOOLEAN : Publish(rc_success) /\ UNCHANGED <<builder, cli>>
    \/ \E timed_out \in BOOLEAN : LeaveWait(timed_out) /\ UNCHANGED <<builder, cli>>
    \/ Check /\ UNCHANGED <<builder, cli>>
    \/ \E m \in inflight : OnMessageFlag(m) /\ UNCHANGED <<builder, cli>>
    \/ OnMessagePayload /\ UNCHANGED <<builder, cli>>

SpecSend == Init /\ [][NextSend]_vars

----------------------------------------------------------------------------
(* Reading the history and the returned image *)

Returned == pc = "returned"

\* the writes that are records (everything but the page headers)
RecordWrites == {i \in 1..Len(written) : written[i].kind # "header"}
HeaderWrites == {i \in 1..Len(written) : written[i].kind = "header"}

\* the encoded value of an entry: UTF-8 bytes plus one terminating zero
Encoded(e) == Utf8(e.value) \o <<0>>

CeilDiv(a, b) == (a + b - 1) \div b

\* continuation records generate_binary emits for a value of n encoded bytes
Continuations(n) == IF n > InlineCapacity THEN CeilDiv(n, ChunkSize) ELSE 0

RECURSIVE RecordsOf(_, _)
RecordsOf(es, i) ==
    IF i > Len(es) THEN 0
    ELSE 1 + (IF es[i].data_type = STR
              THEN Continuations(Len(Utf8(string_data[es[i].key])) + 1)
              ELSE 0)
           + RecordsOf(es, i + 1)

\* record slots of a page: everything after its header
SlotsPerPage == (PAGE_SIZE \div ENTRY_SIZE) - 1

\* pages needed for the namespace record and all records of all entries
PagesNeeded == CeilDiv(1 + RecordsOf(entries, 1), SlotsPerPage)

\* the 32-byte record that stands at offset at of the image
RecordAt(at) == Slice(binary, at, at + ENTRY_SIZE)

\* the write of the descriptor of entry i
DescriptorOf(i) ==
    CHOOSE w \in RecordWrites : written[w].kind = "descriptor" /\ written[w].entry = i

\* payloads (bytes 8-31) of the k records that follow offset d, in order
RECURSIVE Payloads(_, _, _)
Payloads(d, j, k) ==
    IF j > k THEN <<>>
    ELSE Slice(binary, d + j * ENTRY_SIZE + 8, d + (j + 1) * ENTRY_SIZE)
         \o Payloads(d, j + 1, k)

Covered(p) == \E i \in 1..Len(written) : written[i].at < p /\ p <= written[i].at + written[i].n

----------------------------------------------------------------------------
(* The claims *)

\* The formulas below are stated for partitions of a positive size, so that
\* what they show does not rest on the sizes 0 and -4096 that __init__ lets
\* through (C7).
Sized == obj = "live" /\ size > 0

\* C1: the buffer generate_binary returns is exactly as long as the requested
\* partition size.
C1_LengthEqualsSize == (Returned /\ Sized) => Len(binary) = size

\* C2: when the records of the entries need more pages than the partition
\* has, generate_binary raises "partition too small" and returns no image.
C2_OverflowRaises == (Returned /\ Sized) => PagesNeeded <= num_pages

\* C3: every record, descriptor or continuation, is written into a slot after
\* the header of a page whose header was written before it; the cursor never
\* moves backwards; no header is written over an earlier record.
C3_EveryRecordChecked ==
    Sized =>
        /\ \A i \in RecordWrites :
              /\ written[i].at % PAGE_SIZE >= ENTRY_SIZE
              /\ written[i].at % PAGE_SIZE <= PAGE_SIZE - ENTRY_SIZE
              /\ \E h \in HeaderWrites :
                    h < i /\ written[h].at = (written[i].at \div PAGE_SIZE) * PAGE_SIZE
        /\ \A i, j \in RecordWrites : i < j => written[i].at < written[j].at
        /\ \A h \in HeaderWrites : \A i \in RecordWrites :
              i < h => \/ written[i].at + written[i].n <= written[h].at
                       \/ written[h].at + written[h].n <= written[i].at

\* C10: no two entries of the partition hold the same key.
C10_KeysUnique ==
    Sized => \A i, j \in 1..Len(entries) : i # j => entries[i].key # entries[j].key

\* C4: for a string entry whose encoded value is longer than 8 bytes, the
\* descriptor's data field holds the encoded length and the continuation
\* records that follow the descriptor, read in order and cut at that length,
\* give back the encoded value (stated for partitions whose keys are distinct).
C4_ContinuationsCarryValue ==
    (Returned /\ Sized /\ C10_KeysUnique) =>
        \A i \in 1..Len(entries) :
            (entries[i].data_type = STR /\ Len(Encoded(entries[i])) > InlineCapacity) =>
                LET v == Encoded(entries[i])
                    d == written[DescriptorOf(i)].at
                IN  /\ Slice(binary, d + 24, d + 26) = LE(Len(v), 2)
                    /\ Take(Payloads(d, 1, Continuations(Len(v))), Len(v)) = v

\* C5: in a returned image every byte outside the written headers and records
\* is 0xFF, and so is every byte after the last written record.
C5_UnwrittenBytesErased ==
    (Returned /\ Sized) =>
        /\ \A p \in 1..Len(binary) : Covered(p) \/ binary[p] = 255
        /\ LET last == written[Len(written)]
           IN  \A p \in (last.at + last.n + 1)..Len(binary) : binary[p] = 255

\* C6: every key held by the partition encodes to at most 15 bytes (a longer
\* one is refused by the add operation, never stored to be truncated later).
C6_KeysAtMost15Bytes ==
    Sized => \A i \in 1..Len(entries) : Len(Utf8(entries[i].key)) <= 15

\* C7: a partition object exists only with a size that is a positive multiple
\* of the page size.
C7_SizePositiveMultiple ==
    obj = "live" => (size > 0 /\ size % PAGE_SIZE = 0)

\* C8: in a returned image the checksum in bytes 4-7 of every descriptor and
\* continuation record equals the checksum of bytes 8-31 of that record.
C8_ChecksumOverBytes8To31 ==
    (Returned /\ Sized) =>
        \A i \in RecordWrites :
            LET r == RecordAt(written[i].at)
            IN  Slice(r, 4, 8) = _crc32(Slice(r, 8, 32))

\* The same statement read the way encode computes the checksum: over bytes
\* 4-31 of the record with the checksum field still zero.  It fails as well,
\* on the continuation records that carry more than 24 bytes.
ChecksumOverZeroedField ==
    (Returned /\ Sized) =>
        \A i \in RecordWrites :
            LET r == RecordAt(written[i].at)
            IN  Slice(r, 4, 8) = _crc32(<<0, 0, 0, 0>> \o Slice(r, 8, 32))

\* C9: every page of a returned image that holds a record begins with an
\* intact header: active state, sequence 0, bytes 8-27 0xFF, bytes 28-31 the
\* checksum of bytes 0-7.
C9_PagesWithRecordsHaveHeader ==
    (Returned /\ Sized) =>
        \A i \in RecordWrites :
            LET h == RecordAt((written[i].at \div PAGE_SIZE) * PAGE_SIZE)
            IN  /\ Len(h) = 32
                /\ Slice(h, 0, 4) = ActiveState
                /\ Slice(h, 4, 8) = <<0, 0, 0, 0>>
                /\ \A p \in 9..28 : h[p] = 255
                /\ Slice(h, 28, 32) = _crc32(Slice(h, 0, 8))

----------------------------------------------------------------------------
(* The claims about from_config *)

\* an image is returned for the configuration and the size of the image held
SameAsKept ==
    /\ Returned
    /\ kept.held
    /\ loaded.calls > 0
    /\ loaded.raised = "none"
    /\ loaded.config = kept.config
    /\ size = kept.size

\* C11: encoding the configuration of an image held from an earlier encoding
\* again, with the same size, on a new builder or on the one already used,
\* returns an image equal to the one held, byte for byte.
C11_SecondImageIdentical == SameAsKept => binary = kept.image

\* the last from_config call on the object returned without an exception
Loaded == loaded.calls > 0 /\ loaded.raised = "none"

\* the entries the last from_config call appended
AddedEntries == SubSeq(entries, loaded.base + 1, Len(entries))

\* positions in the appended entries that hold the key
Holding(key) == {i \in 1..Len(AddedEntries) : AddedEntries[i].key = key}

\* the appended entries hold the key once, with this type and value
AddedOnce(key, data_type, value) ==
    /\ Cardinality(Holding(key)) = 1
    /\ \A i \in Holding(key) :
          /\ AddedEntries[i].data_type = data_type
          /\ AddedEntries[i].value = value
          /\ data_type = STR => string_data[key] = value

HasNetworks == Loaded /\ "wifi_networks" \in DOMAIN loaded.config

\* C12: for a wifi_networks list of length n, from_config appends one
\* wifiCount entry of value min(n, 5), and one ssid and one password entry
\* for each of the first min(n, 5) networks, under the indices 0..min(n,5)-1;
\* it appends none for an index from min(n, 5) on.
C12_WifiCutAtFive ==
    HasNetworks =>
        LET nets == loaded.config["wifi_networks"]
            m == IF Len(nets) < 5 THEN Len(nets) ELSE 5
        IN  /\ AddedOnce(Key_wifiCount, U8, m)
            /\ \A i \in 0..(m - 1) :
                  /\ AddedOnce(Key_wifi_ssid(i), STR, nets[i + 1].ssid)
                  /\ AddedOnce(Key_wifi_pass(i), STR, nets[i + 1].password)
            /\ \A i \in m..9 :
                  Holding(Key_wifi_ssid(i)) \cup Holding(Key_wifi_pass(i)) = {}

\* an image was returned for a configuration of more than five networks
C12_Witness ==
    /\ Returned
    /\ HasNetworks
    /\ Len(loaded.config["wifi_networks"]) > 5

\* the key a record holds: bytes 8-23 up to the first zero
RecordKey(rec) ==
    LET zeros == {n \in 0..15 : rec[9 + n] = 0}
    IN  IF zeros = {} THEN SubSeq(rec, 9, 24)
        ELSE SubSeq(rec, 9, 8 + CHOOSE n \in zeros : \A z \in zeros : n <= z)

\* the 32-byte slots of the image, the header slot of each page left out
RecordSlots ==
    SelectSeq([k \in 1..(Len(binary) \div ENTRY_SIZE) |-> k - 1],
              LAMBDA k : k % (PAGE_SIZE \div ENTRY_SIZE) # 0)

\* the slot holds a descriptor: namespace index 255 and the type of a value
IsDescriptor(k) ==
    /\ binary[k * ENTRY_SIZE + 1] = 255
    /\ binary[k * ENTRY_SIZE + 2] \in {U8, U16, U32, STR}

\* the descriptors of the image, read from its first byte to its last
Descriptors ==
    LET slots == SelectSeq(RecordSlots, IsDescriptor)
    IN  [i \in 1..Len(slots) |-> RecordAt(slots[i] * ENTRY_SIZE)]

\* every key from_config can write, in the order the claim gives
FixedOrder ==
    <<Key_deviceName, Key_wifiCount,
      Key_wifi_ssid(0), Key_wifi_pass(0), Key_wifi_ssid(1), Key_wifi_pass(1),
      Key_wifi_ssid(2), Key_wifi_pass(2), Key_wifi_ssid(3), Key_wifi_pass(3),
      Key_wifi_ssid(4), Key_wifi_pass(4),
      Key_mqttServer, Key_mqttPort, Key_mqttCmdTopic, Key_mqttStatTopic,
      Key_apiInflux, Key_apiFwUpdate, Key_initialized>>

\* the configuration has something to store under the key
Configured(c, key) ==
    \/ key = Key_deviceName /\ "device_name" \in DOMAIN c
    \/ key = Key_wifiCount /\ "wifi_networks" \in DOMAIN c
    \/ \E i \in 0..4 :
          /\ key \in {Key_wifi_ssid(i), Key_wifi_pass(i)}
          /\ "wifi_networks" \in DOMAIN c
          /\ i < Len(c["wifi_networks"])
    \/ key = Key_mqttServer /\ "mqtt_server" \in DOMAIN c
    \/ key = Key_mqttPort
    \/ key \in {Key_mqttCmdTopic, Key_mqttStatTopic} /\ "mqtt_topics" \in DOMAIN c
    \/ key \in {Key_apiInflux, Key_apiFwUpdate} /\ "api_endpoints" \in DOMAIN c
    \/ key = Key_initialized

ExpectedKeys(c) == SelectSeq(FixedOrder, LAMBDA key : Configured(c, key))

\* an image returned by a builder that from_config loaded once
ImageOfConfig == Returned /\ Sized /\ Loaded /\ loaded.calls = 1

\* C13: in a returned image the first record of page 0 is the namespace
\* descriptor, and the descriptors after it, read in image order, are those
\* of the keys of the fixed order that the configuration has a value for, in
\* that order; the last is the initialized flag, of type U8 and value 1.
C13_DescriptorsInFixedOrder ==
    ImageOfConfig =>
        /\ RecordAt(ENTRY_SIZE) = _create_namespace_entry
        /\ RecordKey(RecordAt(ENTRY_SIZE)) = NAMESPACE
        /\ [i \in 1..Len(Descriptors) |-> RecordKey(Descriptors[i])]
              = ExpectedKeys(loaded.config)
        /\ LET last == Descriptors[Len(Descriptors)]
           IN  /\ RecordKey(last) = Key_initialized
               /\ last[2] = U8
               /\ last[25] = 1

\* an image was returned for a configuration with every key and six networks
C13_Witness ==
    /\ ImageOfConfig
    /\ DOMAIN loaded.config = {"device_name", "wifi_networks", "mqtt_server",
                               "mqtt_port", "mqtt_topics", "api_endpoints"}
    /\ Len(loaded.config["wifi_networks"]) > 5
    /\ Len(Descriptors) = Len(FixedOrder)

----------------------------------------------------------------------------
(* The claims about strings *)

\* the string entries whose encoded value fits the 8-byte data field
InlineEntries ==
    {i \in 1..Len(entries) :
        entries[i].data_type = STR /\ Len(Encoded(entries[i])) <= InlineCapacity}

ExpectedPort(c) == IF "mqtt_port" \in DOMAIN c THEN c["mqtt_port"] ELSE 1883

\* the descriptors of the image that hold the key
DescriptorsHolding(key) ==
    {i \in 1..Len(Descriptors) : RecordKey(Descriptors[i]) = key}

\* C16: a from_config call that returns has appended exactly one mqttPort
\* entry, of type U16, whose value is the configured mqtt_port when the key
\* is present and 1883 when it is absent, with and without mqtt_server; the
\* returned image holds one mqttPort descriptor, with that value in bytes
\* 24-25.
C16_OnePortEntry ==
    /\ Loaded => AddedOnce(Key_mqttPort, U16, ExpectedPort(loaded.config))
    /\ ImageOfConfig =>
          /\ Cardinality(DescriptorsHolding(Key_mqttPort)) = 1
          /\ \A i \in DescriptorsHolding(Key_mqttPort) :
                /\ Descriptors[i][2] = U16
                /\ Slice(Descriptors[i], 24, 26) = LE(ExpectedPort(loaded.config), 2)

\* an image was returned for a configuration with neither port nor server
C16_Witness ==
    /\ ImageOfConfig
    /\ "mqtt_port" \notin DOMAIN loaded.config
    /\ "mqtt_server" \notin DOMAIN loaded.config
    /\ DescriptorsHolding(Key_mqttPort) # {}

\* the string values of a configuration that from_config hands to add_string
StringValues(c) ==
    (IF "device_name" \in DOMAIN c THEN {c["device_name"]} ELSE {})
    \cup (IF "wifi_networks" \in DOMAIN c
          THEN UNION {{c["wifi_networks"][i].ssid, c["wifi_networks"][i].password} :
                         i \in 1..Min(Len(c["wifi_networks"]), 5)}
          ELSE {})
    \cup (IF "mqtt_server" \in DOMAIN c THEN {c["mqtt_server"]} ELSE {})
    \cup (IF "mqtt_topics" \in DOMAIN c
          THEN {c["mqtt_topics"].command, c["mqtt_topics"].status} ELSE {})
    \cup (IF "api_endpoints" \in DOMAIN c
          THEN {c["api_endpoints"].influxdb, c["api_endpoints"].firmware} ELSE {})

\* C15: from_config ends with the value-too-long error exactly when one of
\* the configuration's string values is longer than 4000 characters, and then
\* it has not gone on to the entries after that value; when no value is
\* longer, every string value, one of 4000 characters included, is the value
\* of a string entry the call appended.
C15_TooLongAbove4000 ==
    loaded.calls > 0 =>
        /\ loaded.raised = "ValueTooLong"
              <=> \E v \in StringValues(loaded.config) : Len(v) > MaxStringChars
        /\ loaded.raised = "ValueTooLong" => Holding(Key_initialized) = {}
        /\ loaded.raised = "none" =>
              \A v \in StringValues(loaded.config) :
                  \E i \in 1..Len(AddedEntries) :
                      /\ AddedEntries[i].data_type = STR
                      /\ AddedEntries[i].value = v
                      /\ string_data[AddedEntries[i].key] = v

\* from_config ended with the error after it had appended an entry
C15_Witness ==
    /\ loaded.calls > 0
    /\ loaded.raised = "ValueTooLong"
    /\ err = "ValueTooLong"
    /\ Len(AddedEntries) > 0

----------------------------------------------------------------------------
(* The claims about main *)

Happened(e) == \E i \in 1..Len(events) : events[i] = e
Before(e, i) == \E j \in 1..(i - 1) : events[j] = e
EventsOf(kind) == {i \in 1..Len(events) : events[i].kind = kind}

ImageReturned == Event("generate_binary", "returned")
FileWritten == Event("file", "written")

\* C17: in a run of main the output file is opened and written only after
\* generate_binary returned, and what a successful write leaves is the
\* returned buffer; the flashing tool is started only with --flash, only
\* after the file was written, and at most once; after a flash that failed
\* the run does nothing more; a run in which generate_binary has not
\* returned has neither touched the file nor started the tool.
C17_WriteThenFlashOnce ==
    /\ \A i \in EventsOf("file") : Before(ImageReturned, i)
    /\ Happened(FileWritten) =>
          pc = "returned" /\ disk = [exists |-> TRUE, bytes |-> binary]
    /\ \A i \in EventsOf("tool") : args.flash /\ Before(FileWritten, i)
    /\ Cardinality(EventsOf("tool")) <= 1
    /\ \A i \in EventsOf("tool") :
          events[i].outcome # "exit_zero" => (step = "exited" /\ i = Len(events))
    /\ ~Happened(ImageReturned) =>
          (EventsOf("file") \cup EventsOf("tool") = {} /\ disk = NoOutput)

\* the run ended after the tool, started once after the write, had failed
C17_Witness ==
    /\ step = "exited"
    /\ Happened(FileWritten)
    /\ Happened(Event("tool", "exit_nonzero"))

\* generation succeeded and, if requested, so did flashing
Succeeded ==
    /\ args.config.kind = "object"
    /\ ParseInt(args.size).ok
    /\ err = "none"
    /\ pc = "returned"
    /\ Happened(FileWritten)
    /\ args.flash => Happened(Event("tool", "exit_zero"))

\* one of the failures the claim lists happened in the run
Failed ==
    \/ args.config.kind \in {"missing", "unreadable", "malformed", "not_object"}
    \/ ~ParseInt(args.size).ok
    \/ err # "none"
    \/ pc = "raised"
    \/ Happened(Event("file", "failed"))
    \/ \E o \in {"not_found", "exit_nonzero", "error"} : Happened(Event("tool", o))

\* C18: a run of main that has ended has exit status non-zero when the
\* configuration file was unreadable or malformed, the size did not parse,
\* building or generating raised, the file write failed or the flashing step
\* failed, and status zero exactly when generate_binary returned, the file
\* was written and, with --flash, the tool ended with exit code 0.
C18_ExitStatus ==
    step = "exited" =>
        /\ Failed => exit_code # 0
        /\ exit_code = 0 <=> Succeeded

\* the run ended with a non-zero status after the tool was not found
C18_Witness ==
    /\ step = "exited"
    /\ exit_code # 0
    /\ Happened(Event("tool", "not_found"))

----------------------------------------------------------------------------
(* The claims about configure_device.py *)

\* the names of the commands handed to send_command so far, in call order
NamesSent == [i \in 1..Len(sent) |-> sent[i].cmd.cmd]

Repeat(name, n) == [i \in 1..n |-> name]

\* the command names the claim gives for a configuration
ExpectedNames(c) ==
    (IF "device_name" \in DOMAIN c THEN <<"set_device_name">> ELSE <<>>)
    \o (IF "wifi_networks" \in DOMAIN c
        THEN Repeat("set_wifi", Len(c["wifi_networks"])) ELSE <<>>)
    \o (IF "mqtt_server" \in DOMAIN c THEN <<"set_mqtt_server">> ELSE <<>>)
    \o (IF "mqtt_topics" \in DOMAIN c THEN <<"set_mqtt_topics">> ELSE <<>>)
    \o (IF "api_endpoints" \in DOMAIN c THEN <<"set_api_endpoints">> ELSE <<>>)
    \o <<"print_config">>

\* the set_wifi commands sent before call i
WifiBefore(i) == {j \in 1..(i - 1) : sent[j].cmd.cmd = "set_wifi"}

\* C19: the commands configure_device has handed to send_command are, at any
\* time, the first ones of set_device_name, one set_wifi for each network in
\* index order, set_mqtt_server, set_mqtt_topics, set_api_endpoints,
\* print_config, the steps of absent keys left out; when it returns it has
\* sent all of them whatever the results were, print_config last, and it
\* returns True exactly when every send_command call returned True.
C19_CommandsInFixedOrder ==
    cd_pc # "idle" =>
        LET expected == ExpectedNames(device_config)
        IN  /\ Len(sent) <= Len(expected)
            /\ NamesSent = SubSeq(expected, 1, Len(sent))
            /\ \A i \in 1..Len(sent) :
                  sent[i].cmd.cmd = "set_wifi" =>
                      LET n == Cardinality(WifiBefore(i))
                          wifi == device_config["wifi_networks"][n + 1]
                      IN  sent[i].cmd.params =
                              [index |-> n, ssid |-> wifi.ssid,
                               password |-> wifi.password]
            /\ cd_pc = "running" => Len(sent) < Len(expected)
            /\ cd_pc = "returned" =>
                  /\ Len(sent) = Len(expected)
                  /\ sent[Len(sent)].cmd.cmd = "print_config"
                  /\ success <=> \A i \in 1..Len(sent) : sent[i].result

\* configure_device returned False after its first command had failed and
\* the six after it had been sent
C19_Witness ==
    /\ cd_pc = "returned"
    /\ ~success
    /\ Len(sent) = 7
    /\ ~sent[1].result
    /\ \A i \in 2..7 : sent[i].result

\* C20: a send_command call returns True only when response_received was set
\* by the status message that answers the command of this call (a message
\* that cannot arrive before the command is published).
C20_ResponseOfThisCommand ==
    \A i \in 1..Len(sent) : sent[i].result => sent[i].by = i

\* the keys of the string entries in the entry list
StringEntryKeys ==
    {entries[i].key : i \in {j \in 1..Len(entries) : entries[j].data_type = STR}}

\* a call of add_u8, add_u16, add_u32 or add_string that raised
FailedAdd ==
    /\ adds' = adds + 1
    /\ err' \in {"KeyTooLong", "ValueTooLong"}

\* C21: an add operation that raises (key too long or value too long) leaves
\* the entry list and the string_data map exactly as they were before the
\* call, and in every reachable state the keys of string_data are exactly
\* the keys of the string entries in the entry list.
C21_FailedAddChangesNothing ==
    /\ [][FailedAdd => UNCHANGED <<entries, string_data>>]_vars
    /\ [](DOMAIN string_data = StringEntryKeys)

====
